---- MODULE Spec2Model ----
(***************************************************************************)
(* Model of executeClaudeCommand (hive-mind): the spawn-based supervisor   *)
(* of src/src/solve.claude-execution.lib.mjs and the command-stream        *)
(* variant kept in src/unnamed/part_000.                                   *)
(*                                                                         *)
(* Text is a sequence of pieces.  A piece is an atomic run of characters:  *)
(* the newline "\n", a blank " ", a phrase such as "rate limit", or the    *)
(* compact serialisation of one JSON object as jq -c prints it.            *)
(*                                                                         *)
(* Spec is the whole run.  FramerSpec frames one text alone, DecodeSpec    *)
(* decodes one chunk alone, StderrSpec and SnapshotSpec are the run with   *)
(* one stdout line and a varied stderr or resource snapshot.  ClassifySpec *)
(* varies the markers of that line, ArgsSpec the resume token, EndSpec is  *)
(* the run under fairness of the calls awaited after 'close', PathSpec     *)
(* frames one text with events along the three paths, and YouTrackSpec is  *)
(* one call of an operation of src/youtrack.lib.mjs.                       *)
(***************************************************************************)
EXTENDS Integers, Sequences, FiniteSets, TLC

\* ---------------------------------------------------------------- bounds
MaxLines == 2
MaxChunk == 3
MaxErrChunks == 1
MaxLen == 4
MaxDecoded == 2
MaxErrOrder == 2

\* ------------------------------------------------------------ text pieces
NL == "\n"
SP == " "
NoSession == ""

\* The marker phrases of the outcome classification.
RateLimitExceeded == <<"rate_limit_exceeded">>
YouHaveExceeded == <<"You have exceeded your ", "rate limit">>
RateLimit == <<"rate limit">>
ContextLengthExceeded == <<"context_length_exceeded">>
NodeInternal == <<"node:internal">>

\* err.message of the 'error' event of a child that could not be spawned.
SpawnErrorMessage == <<"spawn sh ENOENT">>

\* String.prototype.includes: needle occurs contiguously in hay.
Includes(hay, needle) ==
    \E i \in 0..(Len(hay) - Len(needle)) :
        \A j \in 1..Len(needle) : hay[i + j] = needle[j]

IsBlank(piece) == piece = SP \/ piece = NL

\* String.prototype.trim: leading and trailing whitespace removed.
RECURSIVE TrimLeft(_)
TrimLeft(s) ==
    IF s # <<>> /\ IsBlank(Head(s)) THEN TrimLeft(Tail(s)) ELSE s

RECURSIVE TrimRight(_)
TrimRight(s) ==
    IF s # <<>> /\ IsBlank(s[Len(s)]) THEN TrimRight(SubSeq(s, 1, Len(s) - 1)) ELSE s

Trim(s) == TrimRight(TrimLeft(s))

\* String.prototype.split('\n'): always at least one element, the last one
\* being the text after the final newline (possibly empty).
RECURSIVE SplitNL(_)
SplitNL(s) ==
    IF \A i \in 1..Len(s) : s[i] # NL THEN <<s>>
    ELSE LET i == CHOOSE k \in 1..Len(s) :
                      s[k] = NL /\ \A m \in 1..(k - 1) : s[m] # NL
         IN  <<SubSeq(s, 1, i - 1)>> \o SplitNL(SubSeq(s, i + 1, Len(s)))

\* A mutant of FrameLines: the chunk is split on its own, the buffered fragment
\* of the chunk before it forgotten.
FrameLinesNoCarry(buffer, output) ==
    LET parts == SplitNL(output)
    IN  [lines  |-> SubSeq(parts, 1, Len(parts) - 1),
         buffer |-> parts[Len(parts)]]

\* const lines = stdoutBuffer.split('\n'); stdoutBuffer = lines.pop() || '';
FrameLines(buffer, output) ==
    LET parts == SplitNL(buffer \o output)
    IN  [lines  |-> SubSeq(parts, 1, Len(parts) - 1),
         buffer |-> parts[Len(parts)]]

\* output.split('\n').filter(line => line.trim()) of the command-stream paths.
RECURSIVE FilterNonBlank(_)
FilterNonBlank(ls) ==
    IF ls = <<>> THEN <<>>
    ELSE IF Trim(Head(ls)) # <<>> THEN <<Head(ls)>> \o FilterNonBlank(Tail(ls))
    ELSE FilterNonBlank(Tail(ls))

SplitFilter(output) == FilterNonBlank(SplitNL(output))

\* The text whose complete lines are ls: every line followed by its '\n'.
RECURSIVE Unframe(_)
Unframe(ls) == IF ls = <<>> THEN <<>> ELSE Head(ls) \o <<NL>> \o Unframe(Tail(ls))

\* ------------------------------------------------------- the command line
\* Lines 22 and 57-86: the text handed to `sh -c`.  The model, the payloads and
\* the path of the program are fixed; the resume token is the text of argv.resume.
DQ == "\""
NoResume == <<>>
ClaudePath == <<"claude">>
Model == <<"sonnet">>
EscapedPrompt == <<"fix", SP, "it">>
EscapedSystemPrompt == <<"be", SP, "brief">>

\* Lines 58-65: claudeArgs.
ClaudeArgs(token) ==
    (IF token # NoResume THEN <<"--resume", SP>> \o token \o <<SP>> ELSE <<>>)
    \o <<"--output-format", SP, "stream-json", SP, "--verbose", SP,
          "--dangerously-skip-permissions", SP, "--model", SP>> \o Model
    \o <<SP, "-p", SP, DQ>> \o EscapedPrompt
    \o <<DQ, SP, "--append-system-prompt", SP, DQ>> \o EscapedSystemPrompt \o <<DQ>>

\* Line 86: shellCommand.
ShellCommand(token) ==
    ClaudePath \o <<SP>> \o ClaudeArgs(token) \o <<SP, "|", SP, "jq", SP, "-c", SP, ".">>

\* sh reading a command line (lines 89-90, `sh -c`): outside double quotes a
\* blank ends a word and `|` or `;` ends a command; a double quote opens or
\* closes a quoted part and is removed.  The result is the list of commands,
\* each a list of words, each word the text it is made of.
RECURSIVE ShellScan(_, _, _, _, _)
ShellScan(rest, quoted, word, words, commands) ==
    LET closed == IF word.open THEN Append(words, word.text) ELSE words
        none == [open |-> FALSE, text |-> <<>>]
    IN  IF rest = <<>>
        THEN IF closed = <<>> THEN commands ELSE Append(commands, closed)
        ELSE LET c == Head(rest)
             IN  IF c = DQ
                 THEN ShellScan(Tail(rest), ~quoted, [word EXCEPT !.open = TRUE],
                                words, commands)
                 ELSE IF ~quoted /\ c = SP
                 THEN ShellScan(Tail(rest), quoted, none, closed, commands)
                 ELSE IF ~quoted /\ c \in {"|", ";"}
                 THEN ShellScan(Tail(rest), quoted, none, <<>>,
                                IF closed = <<>> THEN commands
                                ELSE Append(commands, closed))
                 ELSE ShellScan(Tail(rest), quoted,
                                [open |-> TRUE, text |-> Append(word.text, c)],
                                words, commands)

ShellParse(text) == ShellScan(text, FALSE, [open |-> FALSE, text |-> <<>>], <<>>, <<>>)

\* ------------------------------------------------------------ JSON lines
\* The objects the child prints, each one piece of text.
JSONTokens ==
    {"{message}", "{system,s1}", "{message,s2}", "{tool_use}",
     "{text:hi}", "{text:limit}", "{error:context}"}
RawTokens == {"junk"}
Tokens == JSONTokens \cup RawTokens

\* Further objects, which the child prints in the runs of one line only: an
\* error whose text carries both a rate-limit marker and the context marker,
\* text events with an empty and with no text, error events with an empty and
\* with no error text.
MarkerTokens == {"{error:both}"}
EmptyTokens == {"{text:}", "{text}", "{error:}", "{error}"}
\* Objects with a type the dispatch has no branch for, or with no type, one of
\* them carrying a session id, and a tool result.
OtherTokens == {"{other}", "{other,s3}", "{notype}", "{tool_result}"}
BothMarkers == RateLimitExceeded \o <<" after ">> \o ContextLengthExceeded

Undefined == [ok |-> FALSE, type |-> "", session_id |-> "", text |-> <<>>,
              error |-> <<>>, name |-> "", role |-> ""]
Object == [Undefined EXCEPT !.ok = TRUE]

JSONValue(tok) ==
    CASE tok = "{message}"       -> [Object EXCEPT !.type = "message", !.role = "assistant"]
      [] tok = "{system,s1}"     -> [Object EXCEPT !.type = "system", !.session_id = "s1"]
      [] tok = "{message,s2}"    -> [Object EXCEPT !.type = "message", !.session_id = "s2"]
      [] tok = "{tool_use}"      -> [Object EXCEPT !.type = "tool_use", !.name = "bash"]
      [] tok = "{text:hi}"       -> [Object EXCEPT !.type = "text", !.text = <<"hi">>]
      [] tok = "{text:limit}"    -> [Object EXCEPT !.type = "text",
                                       !.text = <<"Error: ">> \o YouHaveExceeded]
      [] tok = "{error:context}" -> [Object EXCEPT !.type = "error",
                                       !.error = ContextLengthExceeded]
      [] tok = "{error:both}"    -> [Object EXCEPT !.type = "error", !.error = BothMarkers]
      [] tok \in {"{text:}", "{text}"}   -> [Object EXCEPT !.type = "text"]
      [] tok = "{other}"         -> [Object EXCEPT !.type = "other"]
      [] tok = "{other,s3}"      -> [Object EXCEPT !.type = "other", !.session_id = "s3"]
      [] tok = "{notype}"        -> Object
      [] tok = "{tool_result}"   -> [Object EXCEPT !.type = "tool_result"]
      [] tok \in {"{error:}", "{error}"} -> [Object EXCEPT !.type = "error"]
      [] OTHER                   -> Undefined

\* JSON.parse(line): one object, surrounding whitespace allowed; anything else
\* throws (ok = FALSE).
JSONParse(line) ==
    LET t == Trim(line)
    IN  IF Len(t) = 1 /\ t[1] \in JSONTokens \cup MarkerTokens \cup EmptyTokens \cup OtherTokens
        THEN JSONValue(t[1]) ELSE Undefined

\* JSON.stringify(data) of a parsed line: its compact serialisation.
JSONStringify(line) == Trim(line)

\* ----------------------------------------------------------------- state
VARIABLES
    verbose,        \* argv.verbose
    sessionId,      \* let sessionId = null (NoSession)
    messageCount,
    toolUseCount,
    lastMessage,
    commandFailed,
    limitReached,
    stdoutBuffer,
    stderrBuffer,
    stderrArrived,  \* the chunks the child wrote on stderr, in arrival order
    stderrLogged,   \* the messages of the log calls made on the 'stderr' stream
    exitCode,       \* "null", "0" or "1"
    exitSignal,     \* "null" or "SIGTERM"
    handlers,       \* suspended stdout 'data' handlers, oldest first
    stderrPending,  \* suspended stderr 'data' handlers
    closePc,        \* the 'close' handler: "idle", "text", "error", "raw", "done"
    settled,        \* the executeCommand promise: "pending", "resolved", "rejected"
    commandResult,  \* what resolve() was given
    mainPc,         \* executeClaudeCommand: "awaiting", "classified", "failed", "returned"
    outcome,        \* the branch of lines 240-266 taken: which outcome was logged
    result,         \* the object returned
    child,          \* the child process and its pipes, as the runtime sees them
    exp,            \* the stream as produced, folded line by line in stream order
    foldedEarly,    \* a line began to be folded while the fold of an earlier one was unfinished
    classifiedLast, \* lastMessage as the classification read it
    classifiedSession, \* sessionId as the classification read it
    resume,         \* argv.resume as text, NoResume when the option is not given
    command,        \* the command line sh was given, as sh reads it; <<>> before spawn
    youtrack,       \* one call of a YouTrack operation, taken on its own
    framer,         \* the line framing of one stdout text, taken on its own
    decoder,        \* one 'data' handler decoding one chunk, taken on its own
    resources,      \* what getResourceSnapshot() returns in this run
    resourcesAfter  \* the snapshot logged after a failure: its memory line and load

runVars == <<sessionId, messageCount, toolUseCount, lastMessage>>
settleVars == <<settled, commandResult, commandFailed, limitReached, outcome,
                classifiedLast, classifiedSession, mainPc>>
exitVars == <<exitCode, exitSignal>>
errVars == <<stderrBuffer, stderrArrived, stderrLogged>>
snapVars == <<resources, resourcesAfter>>
vars == <<verbose, resume, command, youtrack, snapVars, runVars, settleVars, exitVars, stdoutBuffer, errVars,
          handlers, stderrPending, closePc, result, child, exp, foldedEarly, framer, decoder>>

\* The run state a handler reads and writes (lines 51-55).
RunState == [sessionId |-> sessionId, messageCount |-> messageCount,
             toolUseCount |-> toolUseCount, lastMessage |-> lastMessage]

\* ------------------------------------------- the stream as it was produced
\* One line of the stream folded as sections 4.2 and 4.3 of the spec describe.
ExpFold(e, line) ==
    LET d == JSONParse(line)
        human == IF ~d.ok
                 THEN IF Trim(line) # <<>> /\ ~Includes(line, NodeInternal)
                      THEN line ELSE e.last
                 ELSE IF d.type = "text" /\ d.text # <<>> THEN d.text
                 ELSE IF d.type = "error"
                      THEN (IF d.error # <<>> THEN d.error ELSE JSONStringify(line))
                 ELSE e.last
    IN  IF Trim(line) = <<>> THEN e
        ELSE [e EXCEPT
                !.session  = IF e.session = NoSession /\ d.ok THEN d.session_id ELSE @,
                !.messages = IF d.ok /\ d.type = "message" THEN @ + 1 ELSE @,
                !.toolUses = IF d.ok /\ d.type = "tool_use" THEN @ + 1 ELSE @,
                !.last     = human,
                !.lines    = @ + 1]

RECURSIVE ExpFoldAll(_, _)
ExpFoldAll(e, ls) ==
    IF ls = <<>> THEN e ELSE ExpFoldAll(ExpFold(e, Head(ls)), Tail(ls))

\* The stream grows by one chunk: its complete lines are folded, the rest waits.
ExpData(e, output) ==
    LET f == FrameLines(e.partial, output)
    IN  [ExpFoldAll(e, f.lines) EXCEPT !.partial = f.buffer]

\* The stream ends: what is left is its last line.
ExpEnd(e) == [ExpFold(e, e.partial) EXCEPT !.partial = <<>>]

\* ------------------------------------------------ the stdout 'data' handler
\* The body of the for loop (lines 111-176), run from the top of `lines` up to
\* the next await.  pc names the log call the handler is suspended on, "done"
\* that the loop has ended.
RECURSIVE RunLines(_, _)
RECURSIVE AfterSession(_, _)

\* A mutant of RunLines: the exception of JSON.parse leaves the handler, and the
\* lines after the malformed one are never decoded.
RunLinesAbortOnRaw(rs, lines) ==
    IF lines = <<>> THEN [rs |-> rs, lines |-> <<>>, pc |-> "done"]
    ELSE LET line == Head(lines)
             d == JSONParse(line)
         IN  IF Trim(line) = <<>> THEN RunLines(rs, Tail(lines))
             ELSE IF ~d.ok THEN [rs |-> rs, lines |-> <<>>, pc |-> "done"]
             ELSE IF rs.sessionId = NoSession /\ d.session_id # ""
             THEN [rs |-> [rs EXCEPT !.sessionId = d.session_id],
                   lines |-> lines, pc |-> "session"]
             ELSE AfterSession(rs, lines)

\* A mutant of RunLines: `if (line.trim())` in the catch block, the lines that
\* hold 'node:internal' logged and kept like any other raw line.
RunLinesNoDenylist(rs, lines) ==
    IF lines = <<>> THEN [rs |-> rs, lines |-> <<>>, pc |-> "done"]
    ELSE LET line == Head(lines)
             d == JSONParse(line)
         IN  IF Trim(line) = <<>> THEN RunLines(rs, Tail(lines))
             ELSE IF ~d.ok
             THEN [rs |-> rs, lines |-> lines, pc |-> "raw"]
             ELSE IF rs.sessionId = NoSession /\ d.session_id # ""
             THEN [rs |-> [rs EXCEPT !.sessionId = d.session_id],
                   lines |-> lines, pc |-> "session"]
             ELSE AfterSession(rs, lines)

\* A mutant of RunLines: an object whose type has no branch ends the handler,
\* the lines after it never decoded.
RunLinesAbortOnUnknown(rs, lines) ==
    IF lines = <<>> THEN [rs |-> rs, lines |-> <<>>, pc |-> "done"]
    ELSE LET line == Head(lines)
             d == JSONParse(line)
         IN  IF Trim(line) = <<>> THEN RunLines(rs, Tail(lines))
             ELSE IF ~d.ok
             THEN IF Trim(line) # <<>> /\ ~Includes(line, NodeInternal)
                  THEN [rs |-> rs, lines |-> lines, pc |-> "raw"]
                  ELSE RunLines(rs, Tail(lines))
             ELSE IF d.type \notin {"message", "tool_use", "tool_result", "text", "error"}
             THEN [rs |-> rs, lines |-> <<>>, pc |-> "done"]
             ELSE IF rs.sessionId = NoSession /\ d.session_id # ""
             THEN [rs |-> [rs EXCEPT !.sessionId = d.session_id],
                   lines |-> lines, pc |-> "session"]
             ELSE AfterSession(rs, lines)

\* A mutant of RunLines: `if (data.session_id)`, every session id of the stream
\* taken, the last one kept.
RunLinesLastSession(rs, lines) ==
    IF lines = <<>> THEN [rs |-> rs, lines |-> <<>>, pc |-> "done"]
    ELSE LET line == Head(lines)
             d == JSONParse(line)
         IN  IF Trim(line) = <<>> THEN RunLines(rs, Tail(lines))
             ELSE IF ~d.ok
             THEN IF Trim(line) # <<>> /\ ~Includes(line, NodeInternal)
                  THEN [rs |-> rs, lines |-> lines, pc |-> "raw"]
                  ELSE RunLines(rs, Tail(lines))
             ELSE IF d.session_id # ""
             THEN [rs |-> [rs EXCEPT !.sessionId = d.session_id],
                   lines |-> lines, pc |-> "session"]
             ELSE AfterSession(rs, lines)

RunLines(rs, lines) ==
    IF lines = <<>> THEN [rs |-> rs, lines |-> <<>>, pc |-> "done"]
    ELSE LET line == Head(lines)
             d == JSONParse(line)
         IN  IF Trim(line) = <<>> THEN RunLines(rs, Tail(lines))
             ELSE IF ~d.ok
             THEN IF Trim(line) # <<>> /\ ~Includes(line, NodeInternal)
                  THEN [rs |-> rs, lines |-> lines, pc |-> "raw"]
                  ELSE RunLines(rs, Tail(lines))
             ELSE IF rs.sessionId = NoSession /\ d.session_id # ""
             THEN [rs |-> [rs EXCEPT !.sessionId = d.session_id],
                   lines |-> lines, pc |-> "session"]
             ELSE AfterSession(rs, lines)

\* A mutant of AfterSession: the counters are written back as read before the
\* increment (`messageCount = messageCount++`), every update lost.
AfterSessionLostUpdate(rs, lines) ==
    LET d == JSONParse(Head(lines))
    IN  IF d.type = "text"
        THEN IF d.text # <<>>
             THEN [rs |-> rs, lines |-> lines, pc |-> "text"]
             ELSE RunLines(rs, Tail(lines))
        ELSE IF d.type = "tool_use" /\ d.name # ""
        THEN [rs |-> rs, lines |-> lines, pc |-> "tool"]
        ELSE IF d.type = "tool_result" /\ verbose
        THEN IF d.error # <<>>
             THEN [rs |-> rs, lines |-> lines, pc |-> "tool-error"]
             ELSE RunLines(rs, Tail(lines))
        ELSE IF d.type = "error"
        THEN [rs |-> rs, lines |-> lines, pc |-> "error"]
        ELSE IF d.type = "message" /\ d.role = "assistant" /\ verbose
        THEN [rs |-> rs, lines |-> lines, pc |-> "meta"]
        ELSE RunLines(rs, Tail(lines))

\* A mutant of AfterSession: text events are counted as messages.
AfterSessionCountsText(rs, lines) ==
    LET d == JSONParse(Head(lines))
        counted == IF d.type \in {"message", "text"}
                   THEN [rs EXCEPT !.messageCount = @ + 1]
                   ELSE IF d.type = "tool_use"
                   THEN [rs EXCEPT !.toolUseCount = @ + 1]
                   ELSE rs
    IN  IF d.type = "text"
        THEN IF d.text # <<>>
             THEN [rs |-> counted, lines |-> lines, pc |-> "text"]
             ELSE RunLines(counted, Tail(lines))
        ELSE IF d.type = "tool_use" /\ d.name # ""
        THEN [rs |-> counted, lines |-> lines, pc |-> "tool"]
        ELSE IF d.type = "tool_result" /\ verbose
        THEN IF d.error # <<>>
             THEN [rs |-> counted, lines |-> lines, pc |-> "tool-error"]
             ELSE RunLines(counted, Tail(lines))
        ELSE IF d.type = "error"
        THEN [rs |-> counted, lines |-> lines, pc |-> "error"]
        ELSE IF d.type = "message" /\ d.role = "assistant" /\ verbose
        THEN [rs |-> counted, lines |-> lines, pc |-> "meta"]
        ELSE RunLines(counted, Tail(lines))

\* A mutant of AfterSession: `if (data.text !== null)`, a text event is logged
\* and kept whatever its text.
AfterSessionAnyText(rs, lines) ==
    LET d == JSONParse(Head(lines))
        counted == IF d.type = "message"
                   THEN [rs EXCEPT !.messageCount = @ + 1]
                   ELSE IF d.type = "tool_use"
                   THEN [rs EXCEPT !.toolUseCount = @ + 1]
                   ELSE rs
    IN  IF d.type = "text"
        THEN [rs |-> counted, lines |-> lines, pc |-> "text"]
        ELSE IF d.type = "tool_use" /\ d.name # ""
        THEN [rs |-> counted, lines |-> lines, pc |-> "tool"]
        ELSE IF d.type = "tool_result" /\ verbose
        THEN IF d.error # <<>>
             THEN [rs |-> counted, lines |-> lines, pc |-> "tool-error"]
             ELSE RunLines(counted, Tail(lines))
        ELSE IF d.type = "error"
        THEN [rs |-> counted, lines |-> lines, pc |-> "error"]
        ELSE IF d.type = "message" /\ d.role = "assistant" /\ verbose
        THEN [rs |-> counted, lines |-> lines, pc |-> "meta"]
        ELSE RunLines(counted, Tail(lines))

\* Lines 123-167: the counters, then the dispatch on data.type.  The objects of
\* JSONValue carry no input and no output, so the logs of lines 142-149 and
\* 155-158 are not reached.
AfterSession(rs, lines) ==
    LET d == JSONParse(Head(lines))
        counted == IF d.type = "message"
                   THEN [rs EXCEPT !.messageCount = @ + 1]
                   ELSE IF d.type = "tool_use"
                   THEN [rs EXCEPT !.toolUseCount = @ + 1]
                   ELSE rs
    IN  IF d.type = "text"
        THEN IF d.text # <<>>
             THEN [rs |-> counted, lines |-> lines, pc |-> "text"]
             ELSE RunLines(counted, Tail(lines))
        ELSE IF d.type = "tool_use" /\ d.name # ""
        THEN [rs |-> counted, lines |-> lines, pc |-> "tool"]
        ELSE IF d.type = "tool_result" /\ verbose
        THEN IF d.error # <<>>
             THEN [rs |-> counted, lines |-> lines, pc |-> "tool-error"]
             ELSE RunLines(counted, Tail(lines))
        ELSE IF d.type = "error"
        THEN [rs |-> counted, lines |-> lines, pc |-> "error"]
        ELSE IF d.type = "message" /\ d.role = "assistant" /\ verbose
        THEN [rs |-> counted, lines |-> lines, pc |-> "meta"]
        ELSE RunLines(counted, Tail(lines))

\* A mutant of ResumeLines: the raw line is trimmed before it is kept.
ResumeLinesTrimmed(rs, h) ==
    LET line == Head(h.lines)
        d == JSONParse(line)
    IN  CASE h.pc = "session" -> AfterSession(rs, h.lines)
          [] h.pc = "text"    -> RunLines([rs EXCEPT !.lastMessage = d.text], Tail(h.lines))
          [] h.pc = "error"   ->
                RunLines([rs EXCEPT !.lastMessage =
                              IF d.error # <<>> THEN d.error ELSE JSONStringify(line)],
                         Tail(h.lines))
          [] h.pc = "raw"     -> RunLines([rs EXCEPT !.lastMessage = Trim(line)],
                                          Tail(h.lines))
          [] OTHER            -> RunLines(rs, Tail(h.lines))

\* A mutant of ResumeLines: `lastMessage = data.error`, an error event without
\* error text leaves lastMessage empty.
ResumeLinesErrorTextOnly(rs, h) ==
    LET line == Head(h.lines)
        d == JSONParse(line)
    IN  CASE h.pc = "session" -> AfterSession(rs, h.lines)
          [] h.pc = "text"    -> RunLines([rs EXCEPT !.lastMessage = d.text], Tail(h.lines))
          [] h.pc = "error"   -> RunLines([rs EXCEPT !.lastMessage = d.error], Tail(h.lines))
          [] h.pc = "raw"     -> RunLines([rs EXCEPT !.lastMessage = line], Tail(h.lines))
          [] OTHER            -> RunLines(rs, Tail(h.lines))

\* The handler continues after the log call it awaited has completed.
ResumeLines(rs, h) ==
    LET line == Head(h.lines)
        d == JSONParse(line)
    IN  CASE h.pc = "session" -> AfterSession(rs, h.lines)
          [] h.pc = "text"    -> RunLines([rs EXCEPT !.lastMessage = d.text], Tail(h.lines))
          [] h.pc = "error"   ->
                RunLines([rs EXCEPT !.lastMessage =
                              IF d.error # <<>> THEN d.error ELSE JSONStringify(line)],
                         Tail(h.lines))
          [] h.pc = "raw"     -> RunLines([rs EXCEPT !.lastMessage = line], Tail(h.lines))
          [] OTHER            -> RunLines(rs, Tail(h.lines))

\* One handler run on its own from a suspension point to the end of its loop,
\* every log call it awaits completing at once.
RECURSIVE Finish(_)
Finish(r) ==
    IF r.pc = "done" THEN r.rs
    ELSE Finish(ResumeLines(r.rs, [lines |-> r.lines, pc |-> r.pc]))

\* The run state after a 'data' handler has folded one newline-terminated line.
TerminatedFold(rs, line) == Finish(RunLines(rs, <<line>>))

\* ------------------------------------------------- the 'close'-time flush
\* Lines 198-214: the log call the 'close' handler awaits for the residual
\* buffer, "done" when it awaits none.
FlushPc(buffer) ==
    LET d == JSONParse(buffer)
    IN  IF Trim(buffer) = <<>> THEN "done"
        ELSE IF d.ok
        THEN IF d.type = "text" /\ d.text # <<>> THEN "text"
             ELSE IF d.type = "error" THEN "error"
             ELSE "done"
        ELSE IF Trim(buffer) # <<>> /\ ~Includes(buffer, NodeInternal)
             THEN "raw"
        ELSE "done"

\* Lines 203, 206 and 211: what lastMessage is given after that log call.
FlushMessage(pc, buffer) ==
    LET d == JSONParse(buffer)
    IN  CASE pc = "text"  -> d.text
          [] pc = "error" -> IF d.error # <<>> THEN d.error ELSE JSONStringify(buffer)
          [] OTHER        -> buffer

\* The run state after the 'close' handler has flushed the residual buffer.
FlushFold(rs, buffer) ==
    IF FlushPc(buffer) = "done" THEN rs
    ELSE [rs EXCEPT !.lastMessage = FlushMessage(FlushPc(buffer), buffer)]

\* ------------------------------------------------ outcome classification
HitRateLimit(message) ==
    \/ Includes(message, RateLimitExceeded)
    \/ Includes(message, YouHaveExceeded)
    \/ Includes(message, RateLimit)

\* A mutant of ClassifyOutcome: the markers are consulted before the exit code.
ClassifyMarkersFirst(code, message) ==
    [commandFailed |-> code # "0" \/ HitRateLimit(message),
     limitReached  |-> HitRateLimit(message),
     outcome       |-> IF HitRateLimit(message) THEN "rate-limited"
                       ELSE IF code = "0" THEN "success"
                       ELSE IF Includes(message, ContextLengthExceeded)
                            THEN "context-exceeded"
                       ELSE "generic"]

\* A mutant of ClassifyOutcome: `if (commandResult.code)`, which takes the null
\* code of a signalled child for success.
ClassifyTruthyCode(code, message) ==
    [commandFailed |-> code = "1",
     limitReached  |-> code = "1" /\ HitRateLimit(message),
     outcome       |-> IF code # "1" THEN "success"
                       ELSE IF HitRateLimit(message) THEN "rate-limited"
                       ELSE IF Includes(message, ContextLengthExceeded)
                            THEN "context-exceeded"
                       ELSE "generic"]

\* A mutant of ClassifyOutcome: limitReached is set from the markers alone,
\* whatever the exit code.
ClassifyLimitAnyCode(code, message) ==
    [commandFailed |-> code # "0",
     limitReached  |-> HitRateLimit(message),
     outcome       |-> IF code = "0" THEN "success"
                       ELSE IF HitRateLimit(message) THEN "rate-limited"
                       ELSE IF Includes(message, ContextLengthExceeded)
                            THEN "context-exceeded"
                       ELSE "generic"]

\* A mutant of ClassifyOutcome: the context marker is consulted before the
\* rate-limit markers.
ClassifyContextFirst(code, message) ==
    [commandFailed |-> code # "0",
     limitReached  |-> /\ code # "0" /\ HitRateLimit(message)
                       /\ ~Includes(message, ContextLengthExceeded),
     outcome       |-> IF code = "0" THEN "success"
                       ELSE IF Includes(message, ContextLengthExceeded)
                            THEN "context-exceeded"
                       ELSE IF HitRateLimit(message) THEN "rate-limited"
                       ELSE "generic"]

\* Lines 240-266: commandFailed and limitReached from the exit code and lastMessage.
ClassifyOutcome(code, message) ==
    [commandFailed |-> code # "0",
     limitReached  |-> code # "0" /\ HitRateLimit(message),
     outcome       |-> IF code = "0" THEN "success"
                       ELSE IF HitRateLimit(message) THEN "rate-limited"
                       ELSE IF Includes(message, ContextLengthExceeded)
                            THEN "context-exceeded"
                       ELSE "generic"]

\* Lines 249-265: the resume guidance logged after the outcome, as a list of
\* the pieces of its messages; nothing when no guidance is given.  The tests
\* of sessionId (lines 251 and 260) follow the first log call of their branch
\* and are taken with the classification.
ResumeGuidance(branch, session, resumed) ==
    IF branch = "rate-limited" /\ session # NoSession
    THEN <<"Session ID for resuming: ", session,
           "To continue when the rate limit resets, run:", "--auto-continue ">>
    ELSE IF branch = "generic" /\ session # NoSession /\ resumed = NoResume
    THEN <<"Session ID for resuming: ", session,
           "To resume this session, run:", "--resume ", session>>
    ELSE <<>>

\* A mutant of Resolve: the promise is settled again, and its continuation run
\* again, by a resolve() that follows a reject().
ResolveAgain(code, signal, message) ==
    LET c == ClassifyOutcome(code, message)
    IN  /\ settled' = "resolved"
        /\ commandResult' = [code |-> code, signal |-> signal]
        /\ commandFailed' = c.commandFailed
        /\ limitReached' = c.limitReached
        /\ outcome' = c.outcome
        /\ classifiedLast' = message
        /\ classifiedSession' = sessionId
        /\ mainPc' = "classified"

\* resolve({code: exitCode, ...}) and, in the same turn of the event loop, the
\* continuation of `await executeCommand()` up to its first log call.  A promise
\* that is already settled ignores the call.
Resolve(code, signal, message) ==
    IF settled = "pending"
    THEN LET c == ClassifyOutcome(code, message)
         IN  /\ settled' = "resolved"
             /\ commandResult' = [code |-> code, signal |-> signal]
             /\ commandFailed' = c.commandFailed
             /\ limitReached' = c.limitReached
             /\ outcome' = c.outcome
             /\ classifiedLast' = message
             /\ classifiedSession' = sessionId
             /\ mainPc' = "classified"
    ELSE UNCHANGED settleVars

\* ------------------------------------------------------------ the child
\* The chunks the child may write next: lines of one token each, cut anywhere
\* between pieces, at most `budget` more lines.
RECURSIVE Pieces(_, _, _)
Pieces(mid, n, budget) ==
    IF n = 0 THEN {<<>>}
    ELSE IF mid THEN {<<NL>> \o s : s \in Pieces(FALSE, n - 1, budget)}
    ELSE IF budget = 0 THEN {}
    ELSE UNION {{<<t>> \o s : s \in Pieces(TRUE, n - 1, budget - 1)} : t \in Tokens}

Chunks ==
    UNION {Pieces(exp.partial # <<>>, n,
                  MaxLines - exp.lines - (IF exp.partial # <<>> THEN 1 ELSE 0))
             : n \in 1..MaxChunk}

\* ------------------------------------------------- getResourceSnapshot
\* getResourceSnapshot() returns {memory: string, load: string}: the output of
\* a memory report, of which the second line is logged, and a load figure.
TypicalSnapshot ==
    [memory |-> <<"total used free", NL, "Mem: 15Gi 14Gi 1Gi">>,
     load   |-> <<"load average: 9.5">>]
Snapshots ==
    {TypicalSnapshot,
     [memory |-> <<"Mem: ">> \o RateLimitExceeded, load |-> ContextLengthExceeded],
     [memory |-> <<"total", NL>> \o YouHaveExceeded \o <<NL>>, load |-> <<>>]}
NoSnapshot == [memory |-> <<"none">>, load |-> <<"none">>]

\* resourcesAfter.memory.split('\n')[1] in a template string (line 273).
MemoryLine(memory) ==
    IF Len(SplitNL(memory)) >= 2 THEN SplitNL(memory)[2] ELSE <<"undefined">>

\* ------------------------------------------------- the YouTrack operations
\* src/youtrack.lib.mjs.  A configuration is a record of its four fields, the
\* url and the project map as text; `defined` is false for a call made with no
\* configuration object.
ValidConfig ==
    [defined |-> TRUE, url |-> <<"https://", "acme", ".youtrack.", "cloud">>,
     apiKey |-> "perm:key", projectMap |-> <<"PAG", ":", "owner/repo">>,
     stage |-> "Ready"]
NoConfig ==
    [defined |-> FALSE, url |-> <<>>, apiKey |-> "", projectMap |-> <<>>, stage |-> ""]
Configs ==
    {ValidConfig, NoConfig,
     [ValidConfig EXCEPT !.url = <<>>],
     [ValidConfig EXCEPT !.apiKey = ""],
     [ValidConfig EXCEPT !.projectMap = <<>>],
     [ValidConfig EXCEPT !.stage = ""],
     [ValidConfig EXCEPT !.url = <<"acme", ".youtrack.", "cloud">>],
     [ValidConfig EXCEPT !.url = <<"https://", "example.com">>],
     [ValidConfig EXCEPT !.projectMap = <<"PAG">>]}

Operations == {"test", "fetch", "get", "updateStage", "addComment"}

\* What fetch() and the response give makeYouTrackRequest (lines 116-135): a
\* rejected fetch, a status that is not ok, a body that is not JSON, an issue
\* object, an array of issues.
Responses == {"network-error", "http-error", "empty", "issue", "list"}

\* new URL(url) (lines 62-66): an absolute URL starts with its scheme.
URLParses(url) == Len(url) > 1 /\ url[1] = "https://"

\* validateYouTrackConfig (lines 39-76): "ok", or the error it throws.
ValidateYouTrackConfig(config) ==
    IF ~config.defined THEN "YouTrack configuration is required"
    ELSE IF config.url = <<>> THEN "YOUTRACK_URL is required"
    ELSE IF config.apiKey = "" THEN "YOUTRACK_API_KEY is required"
    ELSE IF config.projectMap = <<>> THEN "YOUTRACK_PROJECT_MAP is required"
    ELSE IF config.stage = "" THEN "YOUTRACK_STAGE is required"
    ELSE IF ~URLParses(config.url) THEN "Invalid YOUTRACK_URL format"
    ELSE IF ~Includes(config.url, <<".youtrack.">>)
    THEN "YouTrack URL should contain '.youtrack.'"
    ELSE "ok"

\* parseProjectMapping (lines 395-421) for a map of one pair: the project codes.
ParseProjectMapping(projectMap) ==
    IF Len(projectMap) = 3 /\ projectMap[2] = ":" THEN {projectMap[1]} ELSE {}

\* The value an operation returns from its catch block, and for a request that
\* succeeded.
FailureValue(op) ==
    CASE op = "fetch" -> "[]" [] op = "get" -> "null" [] OTHER -> "false"
SuccessValue(op) ==
    CASE op = "fetch" -> "issues" [] op = "get" -> "issue" [] OTHER -> "true"

YouTrackIdle ==
    [op |-> "none", config |-> NoConfig, pc |-> "idle", requests |-> 0,
     failed |-> FALSE, value |-> "none"]

\* ----------------------------------------------------------------- Init
ProgInit ==
    /\ sessionId = NoSession
    /\ messageCount = 0
    /\ toolUseCount = 0
    /\ lastMessage = <<>>
    /\ commandFailed = FALSE
    /\ limitReached = FALSE
    /\ stdoutBuffer = <<>>
    /\ stderrBuffer = <<>>
    /\ stderrArrived = <<>>
    /\ stderrLogged = <<>>
    /\ exitCode = "null"
    /\ exitSignal = "null"
    /\ handlers = <<>>
    /\ stderrPending = 0
    /\ closePc = "idle"
    /\ settled = "pending"
    /\ commandResult = [code |-> "null", signal |-> "null"]
    /\ mainPc = "awaiting"
    /\ outcome = "none"
    /\ result = [success |-> FALSE, sessionId |-> NoSession, limitReached |-> FALSE,
                 messageCount |-> 0, toolUseCount |-> 0]
    /\ child = [exited |-> FALSE, errored |-> FALSE, stdoutEnded |-> FALSE,
                stderrEnded |-> FALSE, closed |-> FALSE]
    /\ exp = [session |-> NoSession, messages |-> 0, toolUses |-> 0, last |-> <<>>,
              lines |-> 0, partial |-> <<>>]
    /\ foldedEarly = FALSE
    /\ classifiedLast = <<>>
    /\ classifiedSession = NoSession
    /\ resourcesAfter = NoSnapshot

FramerIdle == [path |-> "none", text |-> <<>>, pos |-> 0, buffer |-> <<>>,
               handed |-> <<>>, closed |-> FALSE, chunks |-> 0,
               emitted |-> <<>>, flushed |-> <<>>]

DecoderIdle == [input |-> <<>>, rs |-> [sessionId |-> NoSession, messageCount |-> 0,
                                       toolUseCount |-> 0, lastMessage |-> <<>>],
                lines |-> <<>>, pc |-> "idle", logs |-> <<>>]

Init ==
    /\ verbose \in BOOLEAN
    /\ ProgInit
    /\ youtrack = YouTrackIdle
    /\ framer = FramerIdle
    /\ decoder = DecoderIdle
    /\ resources = TypicalSnapshot
    /\ resume = NoResume
    /\ command = ShellParse(ShellCommand(resume))

\* ---------------------------------------------------------------- actions
\* A suspended handler whose fold is not over: an assignment of the current line
\* is still to come (the counters after the session log, lastMessage after the
\* text, error or raw log), or later lines of its chunk have not been started.
Unfinished(h) == h.pc \in {"session", "text", "error", "raw"} \/ Len(h.lines) > 1
SomeUnfinished == \E i \in 1..Len(handlers) : Unfinished(handlers[i])

\* child.stdout.on('data'): the framing and the loop up to its first await.
StdoutData(output) ==
    /\ ~child.stdoutEnded /\ ~child.errored
    /\ LET f == FrameLines(stdoutBuffer, output)
           r == RunLines(RunState, f.lines)
       IN  /\ stdoutBuffer' = f.buffer
           /\ sessionId' = r.rs.sessionId
           /\ messageCount' = r.rs.messageCount
           /\ toolUseCount' = r.rs.toolUseCount
           /\ lastMessage' = r.rs.lastMessage
           /\ handlers' = IF r.pc = "done" THEN handlers
                          ELSE Append(handlers, [lines |-> r.lines, pc |-> r.pc])
           /\ foldedEarly' = (foldedEarly \/
                                (SomeUnfinished /\ FilterNonBlank(f.lines) # <<>>))
    /\ exp' = ExpData(exp, output)
    /\ UNCHANGED <<verbose, resume, command, youtrack, snapVars, settleVars, exitVars, errVars, stderrPending,
                   closePc, result, child, framer, decoder>>

\* The log call the i-th suspended stdout handler awaits completes.
HandlerResume(i) ==
    /\ i \in 1..Len(handlers)
    /\ LET r == ResumeLines(RunState, handlers[i])
       IN  /\ sessionId' = r.rs.sessionId
           /\ messageCount' = r.rs.messageCount
           /\ toolUseCount' = r.rs.toolUseCount
           /\ lastMessage' = r.rs.lastMessage
           /\ handlers' = IF r.pc = "done"
                          THEN SubSeq(handlers, 1, i - 1) \o
                               SubSeq(handlers, i + 1, Len(handlers))
                          ELSE [handlers EXCEPT ![i] = [lines |-> r.lines, pc |-> r.pc]]
    /\ UNCHANGED <<verbose, resume, command, youtrack, snapVars, settleVars, exitVars, stdoutBuffer, errVars,
                   stderrPending, closePc, result, child, exp, foldedEarly, framer, decoder>>

\* A mutant of OnStderrData: a stderr chunk is not handled while a stdout
\* handler is suspended.
OnStderrDataBlocked(errorOutput) ==
    /\ ~child.stderrEnded /\ ~child.errored
    /\ handlers = <<>>
    /\ stderrArrived' = Append(stderrArrived, errorOutput)
    /\ stderrBuffer' = stderrBuffer \o errorOutput
    /\ stderrLogged' = IF errorOutput # <<>> THEN Append(stderrLogged, errorOutput)
                        ELSE stderrLogged
    /\ stderrPending' = IF errorOutput # <<>> THEN stderrPending + 1 ELSE stderrPending
    /\ UNCHANGED <<verbose, resume, command, youtrack, snapVars, runVars, settleVars, exitVars,
                   stdoutBuffer, handlers, closePc, result, child, exp, foldedEarly,
                   framer, decoder>>

\* A mutant of OnStderrData: what is logged is stderrBuffer, not the chunk.
OnStderrDataLogsBuffer(errorOutput) ==
    /\ ~child.stderrEnded /\ ~child.errored
    /\ stderrArrived' = Append(stderrArrived, errorOutput)
    /\ stderrBuffer' = stderrBuffer \o errorOutput
    /\ stderrLogged' = IF errorOutput # <<>> THEN Append(stderrLogged, stderrBuffer')
                        ELSE stderrLogged
    /\ stderrPending' = IF errorOutput # <<>> THEN stderrPending + 1 ELSE stderrPending
    /\ UNCHANGED <<verbose, resume, command, youtrack, snapVars, runVars, settleVars, exitVars, stdoutBuffer, handlers,
                   closePc, result, child, exp, foldedEarly, framer, decoder>>

\* A mutant of OnStderrData: the chunk is also taken for a raw line of output.
OnStderrDataDecoded(errorOutput) ==
    /\ ~child.stderrEnded /\ ~child.errored
    /\ stderrArrived' = Append(stderrArrived, errorOutput)
    /\ stderrBuffer' = stderrBuffer \o errorOutput
    /\ stderrLogged' = IF errorOutput # <<>> THEN Append(stderrLogged, errorOutput)
                        ELSE stderrLogged
    /\ stderrPending' = IF errorOutput # <<>> THEN stderrPending + 1 ELSE stderrPending
    /\ lastMessage' = IF Trim(errorOutput) # <<>> THEN errorOutput ELSE lastMessage
    /\ UNCHANGED <<verbose, resume, command, youtrack, snapVars, sessionId, messageCount, toolUseCount,
                   settleVars, exitVars, stdoutBuffer, handlers, closePc, result,
                   child, exp, foldedEarly, framer, decoder>>

\* child.stderr.on('data') (lines 180-188): the chunk is added to stderrBuffer
\* and, unless it is empty, logged on the 'stderr' stream.
OnStderrData(errorOutput) ==
    /\ ~child.stderrEnded /\ ~child.errored
    /\ stderrArrived' = Append(stderrArrived, errorOutput)
    /\ stderrBuffer' = stderrBuffer \o errorOutput
    /\ stderrLogged' = IF errorOutput # <<>> THEN Append(stderrLogged, errorOutput)
                        ELSE stderrLogged
    /\ stderrPending' = IF errorOutput # <<>> THEN stderrPending + 1 ELSE stderrPending
    /\ UNCHANGED <<verbose, resume, command, youtrack, snapVars, runVars, settleVars, exitVars, stdoutBuffer, handlers,
                   closePc, result, child, exp, foldedEarly, framer, decoder>>

\* The child writes a chunk on stderr.
StderrData ==
    /\ Len(stderrArrived) < MaxErrChunks
    /\ OnStderrData(<<"stderr">>)

\* The log call of a stderr handler completes; the handler ends.
StderrResume ==
    /\ stderrPending > 0
    /\ stderrPending' = stderrPending - 1
    /\ UNCHANGED <<verbose, resume, command, youtrack, snapVars, runVars, settleVars, exitVars, stdoutBuffer, errVars,
                   handlers, closePc, result, child, exp, foldedEarly, framer, decoder>>

\* End of file on the child's stdout.
StdoutEnd ==
    /\ ~child.stdoutEnded
    /\ child' = [child EXCEPT !.stdoutEnded = TRUE]
    /\ exp' = ExpEnd(exp)
    /\ UNCHANGED <<verbose, resume, command, youtrack, snapVars, runVars, settleVars, exitVars, stdoutBuffer, errVars,
                   handlers, stderrPending, closePc, result, foldedEarly, framer, decoder>>

\* End of file on the child's stderr.
StderrEnd ==
    /\ ~child.stderrEnded
    /\ child' = [child EXCEPT !.stderrEnded = TRUE]
    /\ UNCHANGED <<verbose, resume, command, youtrack, snapVars, runVars, settleVars, exitVars, stdoutBuffer, errVars,
                   handlers, stderrPending, closePc, result, exp, foldedEarly, framer, decoder>>

\* A mutant of ChildOnExit: the promise is resolved as soon as the child exits.
ChildOnExitResolves(code, signal) ==
    /\ ~child.exited /\ ~child.errored
    /\ exitCode' = code
    /\ exitSignal' = signal
    /\ child' = [child EXCEPT !.exited = TRUE]
    /\ Resolve(code, signal, lastMessage)
    /\ UNCHANGED <<verbose, resume, command, youtrack, snapVars, runVars, stdoutBuffer, errVars, handlers,
                   stderrPending, closePc, result, exp, foldedEarly, framer, decoder>>

\* child.on('exit'): the code and the signal are recorded, nothing else.
ChildOnExit(code, signal) ==
    /\ ~child.exited /\ ~child.errored
    /\ exitCode' = code
    /\ exitSignal' = signal
    /\ child' = [child EXCEPT !.exited = TRUE]
    /\ UNCHANGED <<verbose, resume, command, youtrack, snapVars, runVars, settleVars, stdoutBuffer, errVars, handlers,
                   stderrPending, closePc, result, exp, foldedEarly, framer, decoder>>

\* child.on('error'): the child could not be spawned; the promise is rejected and
\* the catch block of executeClaudeCommand awaits its log call.
ChildOnError ==
    /\ ~child.exited /\ ~child.errored
    /\ ~child.stdoutEnded /\ ~child.stderrEnded
    /\ exp.lines = 0 /\ exp.partial = <<>> /\ stderrBuffer = <<>>
    /\ child' = [child EXCEPT !.errored = TRUE]
    /\ settled' = "rejected"
    /\ mainPc' = "failed"
    /\ UNCHANGED <<verbose, resume, command, youtrack, snapVars, runVars, exitVars, commandResult, commandFailed,
                   limitReached, outcome, classifiedLast, classifiedSession,
                   stdoutBuffer, errVars,
                   handlers, stderrPending, closePc, result, exp, foldedEarly, framer, decoder>>

\* A mutant of ChildOnClose: the promise is resolved at 'close' only when no
\* stdout handler is suspended on a log call.
ChildOnCloseWaitsForHandlers ==
    /\ ~child.closed
    /\ child.exited \/ child.errored
    /\ child.stdoutEnded /\ child.stderrEnded
    /\ child' = [child EXCEPT !.closed = TRUE]
    /\ LET pc == FlushPc(stdoutBuffer)
       IN  /\ closePc' = IF handlers = <<>> THEN pc ELSE "done"
           /\ foldedEarly' = (foldedEarly \/
                                (SomeUnfinished /\ Trim(stdoutBuffer) # <<>>))
           /\ IF pc = "done" /\ handlers = <<>>
              THEN Resolve(exitCode, exitSignal, lastMessage)
              ELSE UNCHANGED settleVars
    /\ UNCHANGED <<verbose, resume, command, youtrack, snapVars, runVars, exitVars, stdoutBuffer, errVars, handlers,
                   stderrPending, result, exp, framer, decoder>>

\* child.on('close'), emitted once the process has ended (or failed to spawn) and
\* both pipes are closed: the residual buffer is decoded, then the promise resolved.
ChildOnClose ==
    /\ ~child.closed
    /\ child.exited \/ child.errored
    /\ child.stdoutEnded /\ child.stderrEnded
    /\ child' = [child EXCEPT !.closed = TRUE]
    /\ LET pc == FlushPc(stdoutBuffer)
       IN  /\ closePc' = pc
           /\ foldedEarly' = (foldedEarly \/
                                (SomeUnfinished /\ Trim(stdoutBuffer) # <<>>))
           /\ IF pc = "done" THEN Resolve(exitCode, exitSignal, lastMessage)
              ELSE UNCHANGED settleVars
    /\ UNCHANGED <<verbose, resume, command, youtrack, snapVars, runVars, exitVars, stdoutBuffer, errVars, handlers,
                   stderrPending, result, exp, framer, decoder>>

\* The log call the 'close' handler awaits completes: lastMessage, then resolve.
CloseResume ==
    /\ closePc \in {"text", "error", "raw"}
    /\ LET m == FlushMessage(closePc, stdoutBuffer)
       IN  /\ lastMessage' = m
           /\ Resolve(exitCode, exitSignal, m)
    /\ closePc' = "done"
    /\ UNCHANGED <<verbose, resume, command, youtrack, snapVars, sessionId, messageCount, toolUseCount, exitVars,
                   stdoutBuffer, errVars, handlers, stderrPending, result, child,
                   exp, foldedEarly, framer, decoder>>

\* A mutant of Return: a loaded machine is reported as a reached limit.
ReturnSnapshotDecides ==
    /\ mainPc \in {"classified", "failed"}
    /\ resourcesAfter' = IF mainPc = "classified" /\ commandFailed
                          THEN [memory |-> MemoryLine(resources.memory),
                                load |-> resources.load]
                          ELSE resourcesAfter
    /\ result' = [success |-> mainPc = "classified" /\ ~commandFailed,
                  sessionId |-> sessionId,
                  limitReached |-> limitReached \/
                                     (mainPc = "classified" /\ commandFailed /\
                                        HitRateLimit(MemoryLine(resources.memory))),
                  messageCount |-> messageCount, toolUseCount |-> toolUseCount]
    /\ mainPc' = "returned"
    /\ UNCHANGED <<verbose, resume, command, youtrack, resources, runVars, exitVars, settled, commandResult,
                   commandFailed, limitReached, outcome, classifiedLast, classifiedSession,
                   stdoutBuffer,
                   errVars, handlers, stderrPending, closePc, child, exp, foldedEarly,
                   framer, decoder>>

\* Lines 231-237, 268-288 and 291-300: after a failure that was classified the
\* resource snapshot is taken and logged; the result object is built from the
\* variables as they are when the last log call before it has completed.
Return ==
    /\ mainPc \in {"classified", "failed"}
    /\ resourcesAfter' = IF mainPc = "classified" /\ commandFailed
                          THEN [memory |-> MemoryLine(resources.memory),
                                load |-> resources.load]
                          ELSE resourcesAfter
    /\ result' = [success |-> mainPc = "classified" /\ ~commandFailed,
                  sessionId |-> sessionId, limitReached |-> limitReached,
                  messageCount |-> messageCount, toolUseCount |-> toolUseCount]
    /\ mainPc' = "returned"
    /\ UNCHANGED <<verbose, resume, command, youtrack, resources, runVars, exitVars, settled, commandResult,
                   commandFailed, limitReached, outcome, classifiedLast, classifiedSession,
                   stdoutBuffer,
                   errVars, handlers, stderrPending, closePc, child, exp, foldedEarly,
                   framer, decoder>>

ExitStatuses == {<<"0", "null">>, <<"1", "null">>, <<"null", "SIGTERM">>}

Next ==
    \/ \E output \in Chunks : StdoutData(output)
    \/ \E i \in 1..Len(handlers) : HandlerResume(i)
    \/ StderrData
    \/ StderrResume
    \/ StdoutEnd
    \/ StderrEnd
    \/ \E s \in ExitStatuses : ChildOnExit(s[1], s[2])
    \/ ChildOnError
    \/ ChildOnClose
    \/ CloseResume
    \/ Return

Spec == Init /\ [][Next]_vars

\* ------------------------------------------------- the line framing alone
\* One stdout text cut into chunks in every way, framed as each execution path
\* frames it; framer.handed lists the lines that reach JSON.parse, in order.
\* On the spawn path framer.emitted lists the elements of `lines` (line 107) of
\* every 'data' event, framer.flushed what the 'close' handler takes from the
\* buffer, and framer.chunks counts the 'data' events.
FramerAlphabet == {NL, SP, "a", "b"}
Texts == UNION {[1..n -> FramerAlphabet] : n \in 0..MaxLen}
Paths == {"spawn", "iteration", "awaitable"}

FramerInit ==
    /\ verbose = FALSE
    /\ ProgInit
    /\ youtrack = YouTrackIdle
    /\ framer \in {[FramerIdle EXCEPT !.path = p, !.text = t] :
                      p \in Paths, t \in Texts}
    /\ decoder = DecoderIdle
    /\ resources = TypicalSnapshot
    /\ resume = NoResume
    /\ command = ShellParse(ShellCommand(resume))

mainVars == <<verbose, resume, command, youtrack, snapVars, runVars, settleVars, exitVars, stdoutBuffer, errVars,
              handlers, stderrPending, closePc, result, child, exp, foldedEarly>>

\* Spawn path, 'data': lines 103-112, the blank lines passed over.
SpawnData(n) ==
    /\ framer.path = "spawn" /\ ~framer.closed
    /\ n \in 1..(Len(framer.text) - framer.pos)
    /\ LET output == SubSeq(framer.text, framer.pos + 1, framer.pos + n)
           f == FrameLines(framer.buffer, output)
       IN  framer' = [framer EXCEPT !.pos = @ + n, !.buffer = f.buffer,
                                    !.chunks = @ + 1,
                                    !.emitted = @ \o f.lines,
                                    !.handed = @ \o FilterNonBlank(f.lines)]
    /\ UNCHANGED <<mainVars, decoder>>

\* Spawn path, 'close': lines 198-200, the residual buffer.
SpawnClose ==
    /\ framer.path = "spawn" /\ ~framer.closed
    /\ framer.pos = Len(framer.text)
    /\ framer' = [framer EXCEPT !.closed = TRUE,
                                !.flushed = IF Trim(framer.buffer) # <<>>
                                            THEN <<framer.buffer>> ELSE <<>>,
                                !.handed = IF Trim(framer.buffer) # <<>>
                                           THEN Append(@, framer.buffer) ELSE @]
    /\ UNCHANGED <<mainVars, decoder>>

\* Async-iteration path, one chunk: each chunk is split on its own.
IterationChunk(n) ==
    /\ framer.path = "iteration" /\ ~framer.closed
    /\ n \in 1..(Len(framer.text) - framer.pos)
    /\ LET output == SubSeq(framer.text, framer.pos + 1, framer.pos + n)
       IN  framer' = [framer EXCEPT !.pos = @ + n,
                                    !.handed = @ \o SplitFilter(output)]
    /\ UNCHANGED <<mainVars, decoder>>

\* Async-iteration path, the chunk with done set: the loop ends.
IterationDone ==
    /\ framer.path = "iteration" /\ ~framer.closed
    /\ framer.pos = Len(framer.text)
    /\ framer' = [framer EXCEPT !.closed = TRUE]
    /\ UNCHANGED <<mainVars, decoder>>

\* Awaitable path: the whole of result.stdout is split once.
AwaitableResult ==
    /\ framer.path = "awaitable" /\ ~framer.closed
    /\ framer' = [framer EXCEPT !.pos = Len(framer.text), !.closed = TRUE,
                                !.handed = IF framer.text # <<>>
                                           THEN SplitFilter(framer.text) ELSE @]
    /\ UNCHANGED <<mainVars, decoder>>

FramerNext ==
    \/ \E n \in 1..MaxLen : SpawnData(n)
    \/ SpawnClose
    \/ \E n \in 1..MaxLen : IterationChunk(n)
    \/ IterationDone
    \/ AwaitableResult

FramerSpec == FramerInit /\ [][FramerNext]_vars

\* ------------------------------------------- the three paths on one text
\* The framing of the three paths on stdout texts that hold an event with a
\* session id, a rate-limit phrase and other text.
PathAlphabet == {NL, "a", "{message,s2}", "rate limit"}
PathTexts == UNION {[1..n -> PathAlphabet] : n \in 0..MaxLen}

PathInit ==
    /\ verbose = FALSE
    /\ ProgInit
    /\ youtrack = YouTrackIdle
    /\ framer \in {[FramerIdle EXCEPT !.path = p, !.text = t] :
                      p \in Paths, t \in PathTexts}
    /\ decoder = DecoderIdle
    /\ resources = TypicalSnapshot
    /\ resume = NoResume
    /\ command = ShellParse(ShellCommand(resume))

PathSpec == PathInit /\ [][FramerNext]_vars

\* The run state a path ends with, every log call completing at once: on the
\* spawn path the lines of the 'data' events through the handler and then the
\* residual through the 'close' flush (lines 111-176 and 198-214), on the other
\* two paths every line handed to the loop (part_000 lines 158-224, 310-376).
PathRunState ==
    IF framer.path = "spawn"
    THEN LET rs == Finish(RunLines(DecoderIdle.rs, framer.emitted))
         IN  IF framer.flushed = <<>> THEN rs ELSE FlushFold(rs, framer.flushed[1])
    ELSE Finish(RunLines(DecoderIdle.rs, framer.handed))

\* Lines 282-300 (part_000 lines 395-414): the result for a run state and a code.
ResultOf(rs, code) ==
    [success      |-> ~ClassifyOutcome(code, rs.lastMessage).commandFailed,
     sessionId    |-> rs.sessionId,
     limitReached |-> ClassifyOutcome(code, rs.lastMessage).limitReached,
     messageCount |-> rs.messageCount,
     toolUseCount |-> rs.toolUseCount]

\* ------------------------------------------------- stderr beside stdout
\* The child writes up to MaxErrOrder chunks of any content on stderr, an empty
\* one and text that would be an event or a marker on stdout among them, while
\* one line arrives on stdout and the run goes to its end.
ErrChunks == {<<>>, <<"e1">>, <<"{message,s2}", NL>>, RateLimit \o <<NL>>}

ErrData ==
    \E errorOutput \in ErrChunks :
        /\ Len(stderrArrived) < MaxErrOrder
        /\ OnStderrData(errorOutput)

OutData ==
    \E t \in Tokens, terminated \in BOOLEAN :
        /\ exp.lines = 0 /\ exp.partial = <<>>
        /\ StdoutData(IF terminated THEN <<t, NL>> ELSE <<t>>)

StderrNext ==
    \/ ErrData
    \/ StderrResume
    \/ StderrEnd
    \/ OutData
    \/ \E i \in 1..Len(handlers) : HandlerResume(i)
    \/ StdoutEnd
    \/ \E s \in ExitStatuses : ChildOnExit(s[1], s[2])
    \/ ChildOnClose
    \/ CloseResume
    \/ Return

StderrSpec == Init /\ [][StderrNext]_vars

\* ------------------------------------------- the classifier's markers
\* A run of one stdout line whose text carries no marker, a rate-limit marker,
\* the context marker, or both, ended by any exit status.
ClassifyTokens == {"{text:hi}", "{text:limit}", "{error:context}"} \cup MarkerTokens

ClassifyData ==
    \E t \in ClassifyTokens, terminated \in BOOLEAN :
        /\ exp.lines = 0 /\ exp.partial = <<>>
        /\ StdoutData(IF terminated THEN <<t, NL>> ELSE <<t>>)

ClassifyNext ==
    \/ ClassifyData
    \/ \E i \in 1..Len(handlers) : HandlerResume(i)
    \/ StdoutEnd
    \/ StderrEnd
    \/ \E s \in ExitStatuses : ChildOnExit(s[1], s[2])
    \/ ChildOnClose
    \/ CloseResume
    \/ Return

ClassifySpec == Init /\ [][ClassifyNext]_vars

\* ------------------------------------------- the resume token
\* A run started with any of ResumeTokens as argv.resume, a token of several
\* words and one holding a `;` among them: the child is spawned, prints one
\* line and ends.
ResumeTokens == {NoResume, <<"s0">>, <<"s0", SP, "x">>, <<"s0", ";", "x">>}

ArgsInit ==
    /\ verbose \in BOOLEAN
    /\ ProgInit
    /\ youtrack = YouTrackIdle
    /\ framer = FramerIdle
    /\ decoder = DecoderIdle
    /\ resources = TypicalSnapshot
    /\ resume \in ResumeTokens
    /\ command = <<>>

\* Lines 57-94: the command line is built and sh is spawned with it.
SpawnChild ==
    /\ command = <<>>
    /\ command' = ShellParse(ShellCommand(resume))
    /\ UNCHANGED <<verbose, resume, youtrack, snapVars, runVars, settleVars, exitVars,
                   stdoutBuffer, errVars, handlers, stderrPending, closePc, result,
                   child, exp, foldedEarly, framer, decoder>>

ArgsNext ==
    \/ SpawnChild
    \/ /\ command # <<>>
       /\ \/ ClassifyData
          \/ \E i \in 1..Len(handlers) : HandlerResume(i)
          \/ StdoutEnd
          \/ StderrEnd
          \/ \E s \in ExitStatuses : ChildOnExit(s[1], s[2])
          \/ ChildOnClose
          \/ CloseResume
          \/ Return

ArgsSpec == ArgsInit /\ [][ArgsNext]_vars

\* ------------------------------------------- the run to its end
\* The run of StderrSpec, the spawn error added, in which the log calls of the
\* 'close' handler and the log calls and the snapshot of the code after the
\* promise always complete; nothing is assumed of the log calls the 'data'
\* handlers of stdout and stderr are suspended on.
EndNext == StderrNext \/ ChildOnError

EndSpec ==
    Init /\ [][EndNext]_vars /\ WF_vars(CloseResume) /\ WF_vars(Return)

\* ------------------------------------------- the YouTrack operations
\* One call of one operation with any configuration, the API answering in any
\* of the ways of Responses.
notYouTrack == <<verbose, resume, command, snapVars, runVars, settleVars, exitVars,
                 stdoutBuffer, errVars, handlers, stderrPending, closePc, result,
                 child, exp, foldedEarly, framer, decoder>>

YouTrackInit ==
    /\ verbose \in BOOLEAN
    /\ ProgInit
    /\ youtrack \in {[YouTrackIdle EXCEPT !.op = o, !.config = c] :
                        o \in Operations, c \in Configs}
    /\ framer = FramerIdle
    /\ decoder = DecoderIdle
    /\ resources = TypicalSnapshot
    /\ resume = NoResume
    /\ command = ShellParse(ShellCommand(resume))

\* The try block as far as the request (lines 144-156, 168-195, 247-255,
\* 302-324, 343-357): validation first; fetchYouTrackIssues returns [] when the
\* map holds no project.
YouTrackCall ==
    /\ youtrack.pc = "idle"
    /\ youtrack' =
          IF ValidateYouTrackConfig(youtrack.config) # "ok"
          THEN [youtrack EXCEPT !.pc = "catch", !.failed = TRUE]
          ELSE IF youtrack.op = "fetch" /\ ParseProjectMapping(youtrack.config.projectMap) = {}
          THEN [youtrack EXCEPT !.pc = "returned", !.failed = TRUE, !.value = "[]"]
          ELSE [youtrack EXCEPT !.pc = "request", !.requests = @ + 1]
    /\ UNCHANGED notYouTrack

\* makeYouTrackRequest settles (lines 116-135) and the try block runs to its
\* return (lines 157-158, 197-233, 257-289, 326-327, 359-360).
YouTrackResponse(r) ==
    /\ youtrack.pc = "request"
    /\ youtrack' =
          IF r \in {"network-error", "http-error"}
          THEN [youtrack EXCEPT !.pc = "catch", !.failed = TRUE]
          ELSE IF youtrack.op = "fetch" /\ r # "list"
          THEN [youtrack EXCEPT !.pc = "returned", !.failed = TRUE, !.value = "[]"]
          ELSE IF youtrack.op = "get" /\ r # "issue"
          THEN [youtrack EXCEPT !.pc = "returned", !.failed = TRUE, !.value = "null"]
          ELSE [youtrack EXCEPT !.pc = "returned", !.value = SuccessValue(youtrack.op)]
    /\ UNCHANGED notYouTrack

\* The catch block (lines 159-164, 234-237, 290-293, 331-334, 364-367): only
\* that of testYouTrackConnection reads config.url, a TypeError when there is
\* no configuration object.
YouTrackCatch ==
    /\ youtrack.pc = "catch"
    /\ youtrack' =
          IF youtrack.op = "test" /\ ~youtrack.config.defined
          THEN [youtrack EXCEPT !.pc = "thrown"]
          ELSE [youtrack EXCEPT !.pc = "returned", !.value = FailureValue(youtrack.op)]
    /\ UNCHANGED notYouTrack

YouTrackNext ==
    \/ YouTrackCall
    \/ \E r \in Responses : YouTrackResponse(r)
    \/ YouTrackCatch

YouTrackSpec == YouTrackInit /\ [][YouTrackNext]_vars

\* ------------------------------------------- the resource snapshot
\* A run of one stdout line whose getResourceSnapshot() returns any of Snapshots,
\* started with or without --resume.
ResumeOptions == {NoResume, <<"s0">>}

SnapshotInit ==
    /\ verbose \in BOOLEAN
    /\ ProgInit
    /\ youtrack = YouTrackIdle
    /\ framer = FramerIdle
    /\ decoder = DecoderIdle
    /\ resources \in Snapshots
    /\ resume \in ResumeOptions
    /\ command = ShellParse(ShellCommand(resume))

SnapshotNext ==
    \/ OutData
    \/ \E i \in 1..Len(handlers) : HandlerResume(i)
    \/ StdoutEnd
    \/ StderrEnd
    \/ \E s \in ExitStatuses : ChildOnExit(s[1], s[2])
    \/ ChildOnError
    \/ ChildOnClose
    \/ CloseResume
    \/ Return

SnapshotSpec == SnapshotInit /\ [][SnapshotNext]_vars

\* ------------------------------------------------- the line decoding alone
\* One chunk of complete lines handed to one stdout 'data' handler, which runs
\* from log call to log call until its loop has ended; decoder.logs lists the
\* log calls it makes, in order.
DecodeLines ==
    {<<t>> : t \in Tokens \cup EmptyTokens \cup OtherTokens} \cup
    {<<>>, <<SP>>, <<SP, "junk">>, <<"junk", SP>>, <<"junk", SP, "junk">>,
     NodeInternal, <<"junk">> \o NodeInternal, <<SP, "{message}">>,
     <<"{text:hi}", "junk">>, <<SP, "{error}">>}
DecodeInputs == UNION {[1..n -> DecodeLines] : n \in 1..MaxDecoded}

\* The log call a handler suspended at pc on `line` awaits: its stream option
\* and its message (lines 120, 134, 139, 154, 162, 166 and 172).
LogCall(rs, pc, line) ==
    LET d == JSONParse(line)
    IN  CASE pc = "session"    -> [stream |-> "",
                                   message |-> <<"Session ID: ", rs.sessionId>>]
          [] pc = "text"       -> [stream |-> "claude", message |-> d.text]
          [] pc = "tool"       -> [stream |-> "tool",
                                   message |-> <<"Using tool: ", d.name>>]
          [] pc = "tool-error" -> [stream |-> "tool-error",
                                   message |-> <<"Tool error: ">> \o d.error]
          [] pc = "error"      -> [stream |-> "error",
                                   message |-> <<"Error: ">> \o
                                       (IF d.error # <<>> THEN d.error
                                        ELSE JSONStringify(line))]
          [] pc = "meta"       -> [stream |-> "meta",
                                   message |-> <<"Message ", ToString(rs.messageCount),
                                                 " from assistant">>]
          [] OTHER             -> [stream |-> "raw", message |-> line]

DecodeInit ==
    /\ verbose \in BOOLEAN
    /\ ProgInit
    /\ youtrack = YouTrackIdle
    /\ framer = FramerIdle
    /\ decoder \in {[DecoderIdle EXCEPT !.input = i] : i \in DecodeInputs}
    /\ resources = TypicalSnapshot
    /\ resume = NoResume
    /\ command = ShellParse(ShellCommand(resume))

\* The handler as far as its next log call: the run state, the lines left and
\* the log call made.
Decoded(r) ==
    [decoder EXCEPT !.rs = r.rs, !.lines = r.lines, !.pc = r.pc,
                    !.logs = IF r.pc = "done" THEN @
                             ELSE Append(@, LogCall(r.rs, r.pc, Head(r.lines)))]

\* The 'data' event: the chunk is framed and the loop runs to its first await.
DecodeData ==
    /\ decoder.pc = "idle"
    /\ LET f == FrameLines(<<>>, Unframe(decoder.input))
       IN  decoder' = Decoded(RunLines(decoder.rs, f.lines))
    /\ UNCHANGED <<mainVars, framer>>

\* The log call awaited completes: the loop runs on to its next await.
DecodeResume ==
    /\ decoder.pc \notin {"idle", "done"}
    /\ decoder' = Decoded(ResumeLines(decoder.rs,
                                      [lines |-> decoder.lines, pc |-> decoder.pc]))
    /\ UNCHANGED <<mainVars, framer>>

DecodeNext == DecodeData \/ DecodeResume

DecodeSpec == DecodeInit /\ [][DecodeNext]_vars

\* ======================================================================
\* Properties
\* ======================================================================
Returned == mainPc = "returned"
ChildEnded == child.exited /\ child.closed

\* C1: a child that closes with exit code 0 makes executeClaudeCommand return
\* success = true, whatever lastMessage holds when the outcome is classified.
ExitZeroIsSuccess ==
    (Returned /\ settled = "resolved" /\ commandResult.code = "0") => result.success

\* C1 witness: success returned although lastMessage held a rate-limit phrase.
ExitZeroWithRateLimitMessage ==
    /\ Returned /\ settled = "resolved" /\ commandResult.code = "0"
    /\ HitRateLimit(classifiedLast) /\ HitRateLimit(exp.last)
    /\ result.success

\* C2: a child that ends with a non-zero exit code, or by a signal (code null),
\* never yields success = true, whatever lastMessage holds.
AbnormalEndIsFailure ==
    (Returned /\ child.exited /\ exitCode # "0") => ~result.success

\* C2 witness: a signalled child whose last message is no known marker returned
\* as a plain failure.
SignalledWithUnknownMessage ==
    /\ Returned /\ child.exited /\ exitCode = "null" /\ exitSignal = "SIGTERM"
    /\ classifiedLast = <<"junk">>
    /\ ~result.success /\ ~result.limitReached /\ outcome = "generic"

\* C3: non-zero exit and a last human-readable message of the stream that holds
\* a rate-limit marker give success = false and limitReached = true.
RateLimitedStreamIsLimitReached ==
    (Returned /\ child.exited /\ exitCode # "0" /\ HitRateLimit(exp.last))
        => (~result.success /\ result.limitReached)

\* C4: non-zero exit and a last human-readable message that holds
\* 'context_length_exceeded' and no rate-limit marker give success = false and
\* limitReached = false, logged as context-exceeded.
ContextExceededStreamIsClassified ==
    (Returned /\ child.exited /\ exitCode # "0"
       /\ Includes(exp.last, ContextLengthExceeded) /\ ~HitRateLimit(exp.last))
        => (~result.success /\ ~result.limitReached /\ outcome = "context-exceeded")

\* C5: the returned messageCount and toolUseCount are the numbers of 'message'
\* and 'tool_use' lines of the stdout stream.
CountsMatchStream ==
    (Returned /\ ChildEnded)
        => (result.messageCount = exp.messages /\ result.toolUseCount = exp.toolUses)

\* C6: the returned sessionId is the session_id of the first line of the stream,
\* in stream order, that carries one.
SessionIsFirstOfStream ==
    (Returned /\ ChildEnded) => result.sessionId = exp.session

\* C7: when the outcome is classified, lastMessage is the text of the last line
\* of the stream, in stream order, that carries human-readable text.
ClassifiedOnLastHumanMessage ==
    settled = "resolved" => classifiedLast = exp.last

\* C8: the lines of stdout are folded in the order they were produced: no fold
\* starts before the fold of every earlier line has finished.
FoldsInStreamOrder == ~foldedEarly

ChunkBoundaryIndependence ==
    framer.closed => framer.handed = FilterNonBlank(SplitNL(framer.text))

\* The same for the spawn path alone.
SpawnChunkBoundaryIndependence ==
    (framer.closed /\ framer.path = "spawn")
        => framer.handed = FilterNonBlank(SplitNL(framer.text))

\* C11 as stated: on the spawn path nothing but the '\n' delimiters is dropped:
\* the lines of the 'data' events, each followed by its '\n', and then the line
\* flushed at 'close' are the stdout text received.
EmittedLinesReproduceText ==
    (framer.path = "spawn" /\ framer.closed)
        => Unframe(framer.emitted) \o
             (IF framer.flushed = <<>> THEN <<>> ELSE framer.flushed[1]) = framer.text

\* C11 amended: on the spawn path the lines of the 'data' events, each followed
\* by its '\n', and then the buffered fragment are at every moment the stdout
\* text received so far, no line twice and no character lost; at 'close' the
\* fragment is flushed as one line unless it is empty after trimming, the only
\* characters ever dropped besides the '\n' delimiters.
EmittedLinesAndResidualReproduceText ==
    framer.path = "spawn"
        => /\ Unframe(framer.emitted) \o framer.buffer
                = SubSeq(framer.text, 1, framer.pos)
           /\ framer.closed
                => framer.flushed = IF Trim(framer.buffer) # <<>>
                                    THEN <<framer.buffer>> ELSE <<>>
           /\ ~framer.closed => framer.flushed = <<>>

\* C11 witness: a text received in several chunks, closed with lines emitted by
\* the 'data' events, a blank line among them, and a fragment flushed at 'close'.
FramedInChunksAndFlushed ==
    /\ framer.path = "spawn" /\ framer.closed /\ framer.chunks > 1
    /\ Len(framer.emitted) = 2 /\ framer.emitted[1] = <<>>
    /\ framer.flushed = <<<<"b">>>>

\* C12: a residual fragment that is non-empty after trimming is flushed at
\* 'close' as the final line, after every complete line of the stream has been
\* processed: once it has been flushed no 'data' handler is left with a fold of
\* a complete line still to finish.
ResidualFlushedAfterCompleteLines ==
    (child.closed /\ Trim(stdoutBuffer) # <<>>) => ~SomeUnfinished

\* C13: the residual flushed at 'close' is folded as a newline-terminated line
\* is: when the child's stdout has ended and no 'data' handler is left, the run
\* state the flush of the buffer gives is the run state a 'data' handler gives
\* for the same content followed by '\n'.
ResidualFoldedAsTerminatedLine ==
    (child.stdoutEnded /\ ~child.closed /\ handlers = <<>>)
        => FlushFold(RunState, stdoutBuffer) = TerminatedFold(RunState, stdoutBuffer)

\* A line the claims call malformed and not filtered: not valid JSON, non-empty
\* after trimming, and without the denylisted 'node:internal'.
RawEligible(line) ==
    ~JSONParse(line).ok /\ Trim(line) # <<>> /\ ~Includes(line, NodeInternal)

RawLogs == SelectSeq(decoder.logs, LAMBDA l : l.stream = "raw")
RawLines == SelectSeq(decoder.input, RawEligible)

\* C14: every stdout line that is not valid JSON, is non-empty after trimming and
\* has no 'node:internal' in it gives exactly one raw event with the line text
\* unchanged: the 'raw' log calls of a finished handler are these lines, each
\* once and in order, a handler waits on a 'raw' log call only for such a line,
\* and when that log call completes lastMessage becomes exactly the line.
RawLineIsOneRawEvent ==
    /\ [](decoder.pc = "done"
            => RawLogs = [i \in 1..Len(RawLines) |->
                            [stream |-> "raw", message |-> RawLines[i]]])
    /\ [](decoder.pc = "raw"
            => /\ RawEligible(Head(decoder.lines))
               /\ decoder.logs[Len(decoder.logs)]
                    = [stream |-> "raw", message |-> Head(decoder.lines)])
    /\ [][decoder.pc = "raw"
            => decoder'.rs.lastMessage = Head(decoder.lines)]_vars

\* C14 witness: a raw line with a leading blank, after a text line, has been
\* logged once on 'raw' and is lastMessage, blank included.
RawLineKeptUnchanged ==
    /\ decoder.pc = "done"
    /\ decoder.input = << <<"{text:hi}">>, <<SP, "junk">> >>
    /\ RawLogs = << [stream |-> "raw", message |-> <<SP, "junk">>] >>
    /\ decoder.rs.lastMessage = <<SP, "junk">>

\* The run state of a handler given only the lines of the chunk that are JSON.
WithoutMalformed ==
    Finish(RunLines(DecoderIdle.rs,
                    SelectSeq(decoder.input, LAMBDA l : JSONParse(l).ok)))

\* C15: a malformed stdout line never aborts the run: a handler waiting on a log
\* call goes on past the line it is at, and when it has finished, every later
\* line decoded, sessionId and the counters are what the chunk without its
\* malformed lines gives, and so is success or failure for every exit status,
\* whatever the malformed lines did to lastMessage.
MalformedLineDoesNotAbort ==
    /\ decoder.pc \notin {"idle", "done"}
        => Len(ResumeLines(decoder.rs, [lines |-> decoder.lines,
                                        pc |-> decoder.pc]).lines)
             < Len(decoder.lines)
    /\ decoder.pc = "done"
        => /\ decoder.rs.sessionId = WithoutMalformed.sessionId
           /\ decoder.rs.messageCount = WithoutMalformed.messageCount
           /\ decoder.rs.toolUseCount = WithoutMalformed.toolUseCount
           /\ \A st \in ExitStatuses :
                 ClassifyOutcome(st[1], decoder.rs.lastMessage).commandFailed
                   = ClassifyOutcome(st[1], WithoutMalformed.lastMessage).commandFailed

\* C15 witness: a chunk whose first line is malformed and whose second line is a
\* message with a session id, both folded.
LineAfterMalformedIsFolded ==
    /\ decoder.pc = "done"
    /\ decoder.input = << <<"junk">>, <<"{message,s2}">> >>
    /\ decoder.rs.sessionId = "s2" /\ decoder.rs.messageCount = 1
    /\ decoder.rs.lastMessage = <<"junk">>

\* C16: a child-process failure is caught and gives a returned result with
\* success = false and the error text kept as lastMessage: after the 'error'
\* event of a child that could not be spawned, the run returns failure and
\* lastMessage is the message of the error.
SpawnErrorKeptAsLastMessage ==
    (Returned /\ settled = "rejected")
        => (~result.success /\ lastMessage = SpawnErrorMessage)

\* The 'message' and 'tool_use' lines handed to 'data' handlers so far: those of
\* the stream but for a residual that only the 'close' handler sees.
MessagesHanded ==
    exp.messages - (IF child.stdoutEnded /\ JSONParse(stdoutBuffer).type = "message"
                    THEN 1 ELSE 0)
ToolUsesHanded ==
    exp.toolUses - (IF child.stdoutEnded /\ JSONParse(stdoutBuffer).type = "tool_use"
                    THEN 1 ELSE 0)

\* C17: no counter update is lost: under every interleaving of the stdout
\* handlers, the stderr handler and the 'close' handler, once every 'data'
\* handler has finished messageCount and toolUseCount are the numbers of
\* increments that were started, one for each 'message' and each 'tool_use'
\* line handed to a 'data' handler.
NoCounterUpdateLost ==
    handlers = <<>>
        => (messageCount = MessagesHanded /\ toolUseCount = ToolUsesHanded)

\* C17 witness: two messages counted although the second was folded while the
\* handler of the first was suspended before its increment, with a stderr chunk
\* and the 'close' handler in the same run.
InterleavedIncrementsCounted ==
    /\ handlers = <<>> /\ foldedEarly /\ messageCount = 2
    /\ stderrBuffer # <<>> /\ child.closed

\* C18: no stderr output is dropped: at every moment the messages logged on the
\* 'stderr' stream are the non-empty chunks the child wrote on stderr, each
\* once and in arrival order, whatever the stdout handlers are doing.
StderrLoggedOnceInOrder ==
    stderrLogged = SelectSeq(stderrArrived, LAMBDA c : c # <<>>)

\* C18 witness: two different stderr chunks logged in their order while a
\* stdout handler is suspended.
StderrLoggedBesideStdout ==
    /\ stderrArrived = << <<"e1">>, RateLimit \o <<NL>> >>
    /\ stderrLogged = stderrArrived
    /\ handlers # <<>>

\* C19: stderr is not decoded: no step of a stderr handler changes sessionId,
\* messageCount, toolUseCount or lastMessage, nor the outcome or the result.
StderrLeavesRunStateAlone ==
    [][(stderrArrived' # stderrArrived \/ stderrPending' # stderrPending)
         => UNCHANGED <<runVars, commandFailed, limitReached, classifiedLast,
                        result>>]_vars

\* C19 witness: a failed run returned with no session, no message counted and no
\* limit reached although stderr carried a message object with a session id
\* and a rate-limit phrase.
StderrEventsIgnored ==
    /\ Returned /\ exitCode = "1"
    /\ stderrArrived = << <<"{message,s2}", NL>>, RateLimit \o <<NL>> >>
    /\ result.sessionId = NoSession /\ result.messageCount = 0
    /\ ~result.limitReached /\ exp.lines = 0

\* C20: the resource snapshot is informational only: whatever
\* getResourceSnapshot() returns, success and limitReached of the result are
\* those the exit code and the message classified give, and a run that ended in
\* success or could not start its child logs no snapshot at all.
SnapshotIsInformationalOnly ==
    /\ (Returned /\ settled = "resolved")
         => /\ result.success = (commandResult.code = "0")
            /\ result.limitReached
                 = (commandResult.code # "0" /\ HitRateLimit(classifiedLast))
    /\ (Returned /\ settled = "rejected")
         => (~result.success /\ ~result.limitReached)

\* C20 witness: a failed run whose snapshot was logged with a rate-limit phrase
\* in its memory line and returned with limitReached = false.
SnapshotWithMarkerLogged ==
    /\ Returned /\ commandResult.code = "1"
    /\ HitRateLimit(resourcesAfter.memory)
    /\ ~result.success /\ ~result.limitReached

\* C21: every run that ends in failure, a spawn error included, has logged a
\* resource snapshot by the time its result is returned, and a run that ends
\* in success has logged none.
FailureLogsSnapshot ==
    Returned => ((~result.success) <=> (resourcesAfter # NoSnapshot))

\* C22: whenever a run fails after a session id was captured, the result carries
\* that session id and resume guidance containing it has been reported, for
\* every failure class and with or without a resume token.
FailureWithSessionGivesGuidance ==
    (Returned /\ ~result.success /\ classifiedSession # NoSession)
        => /\ result.sessionId = classifiedSession
           /\ Includes(ResumeGuidance(outcome, classifiedSession, resume),
                       <<classifiedSession>>)

\* C23: the stdout and stderr consumers do not block each other: while a stdout
\* handler is suspended on a log call, a stderr chunk can still be delivered
\* and a suspended stderr handler can still finish; while a stderr handler is
\* suspended, a stdout chunk can still be delivered and a suspended stdout
\* handler can still go on.
ConsumersDoNotBlock ==
    /\ (handlers # <<>> /\ ~child.stderrEnded /\ Len(stderrArrived) < MaxErrOrder)
         => ENABLED ErrData
    /\ (handlers # <<>> /\ stderrPending > 0) => ENABLED StderrResume
    /\ (stderrPending > 0 /\ ~child.stdoutEnded /\ exp.lines = 0 /\ exp.partial = <<>>)
         => ENABLED OutData
    /\ (stderrPending > 0 /\ handlers # <<>>) => ENABLED HandlerResume(1)

\* C23 witness: a stdout handler and two stderr handlers suspended at once.
BothConsumersSuspended ==
    /\ handlers # <<>> /\ stderrPending = 2
    /\ ~child.stdoutEnded /\ ~child.stderrEnded

\* C24: the result is constructed once and never changes after it is returned:
\* no step taken after the return, a 'data' handler that resumes late or a
\* 'close' that follows an 'error', alters a field of the result or leads to a
\* second return.
ResultFixedAfterReturn ==
    [][Returned => (result' = result /\ mainPc' = "returned")]_vars

\* C24 witness: after the return a 'data' handler has resumed and counted a
\* message the result does not have.
HandlerResumedAfterReturn ==
    /\ Returned /\ settled = "resolved"
    /\ result.messageCount < messageCount
\* C26: the classifier takes the first rule that matches: when the child ended
\* with a code other than 0 and the lastMessage it classified holds a rate-limit
\* marker and the context marker, the run is rate-limited (limitReached is
\* true), not context-exceeded; when the code is 0 no marker is consulted, the
\* run is a success whatever lastMessage holds.
ClassifierFirstMatchWins ==
    (Returned /\ settled = "resolved")
        => /\ (/\ commandResult.code # "0"
               /\ HitRateLimit(classifiedLast)
               /\ Includes(classifiedLast, ContextLengthExceeded))
                  => (outcome = "rate-limited" /\ limitReached /\ result.limitReached)
           /\ (commandResult.code = "0")
                  => (outcome = "success" /\ ~limitReached /\ ~commandFailed)

\* C26 witness: a failed run classified on a message that holds both markers.
BothMarkersClassified ==
    /\ Returned /\ settled = "resolved" /\ commandResult.code # "0"
    /\ Includes(classifiedLast, RateLimitExceeded)
    /\ Includes(classifiedLast, ContextLengthExceeded)
    /\ outcome = "rate-limited"

\* C27: sessionId is assigned at most once in a run: once it holds a session id,
\* no step of any handler (stdout data, resumed log call, stderr, exit, spawn
\* error, close-time flush, return) gives it another value.
SessionIdSetOnce ==
    [][sessionId # NoSession => sessionId' = sessionId]_vars

\* C27 witness: the stream was a message carrying session s2 and then a system
\* event carrying session s1, both folded, and sessionId is still s2.
LaterSessionIgnored ==
    /\ sessionId = "s2" /\ handlers = <<>>
    /\ exp.lines = 2 /\ exp.messages = 1 /\ exp.toolUses = 0 /\ exp.last = <<>>
    /\ messageCount = 1 /\ lastMessage = <<>>

\* A text event whose text is empty or missing.
EmptyText(line) ==
    JSONParse(line).ok /\ JSONParse(line).type = "text" /\ JSONParse(line).text = <<>>

\* The run state of a handler given the chunk without its empty text events.
WithoutEmptyText ==
    Finish(RunLines(DecoderIdle.rs,
                    SelectSeq(decoder.input, LAMBDA l : ~EmptyText(l))))

ErrorEvent(line) == JSONParse(line).ok /\ JSONParse(line).type = "error"
ErrorText(line) ==
    IF JSONParse(line).error # <<>> THEN JSONParse(line).error ELSE Trim(line)

\* C29: an 'error' event sets lastMessage to its error text when it has one and
\* to the JSON of the whole event otherwise, whatever lastMessage held: each
\* error event of the chunk makes the handler wait on its 'error' log call,
\* lastMessage is that text once the log call completes, a chunk that ends with
\* an error event finishes with it as lastMessage, and the 'close' handler
\* gives the same text for an error event left in the buffer.
ErrorEventSetsLastMessage ==
    /\ [](decoder.pc = "error"
            => /\ ErrorEvent(Head(decoder.lines))
               /\ decoder.logs[Len(decoder.logs)]
                    = [stream |-> "error",
                       message |-> <<"Error: ">> \o ErrorText(Head(decoder.lines))])
    /\ [][decoder.pc = "error"
            => decoder'.rs.lastMessage = ErrorText(Head(decoder.lines))]_vars
    /\ [](decoder.pc = "done" /\ ErrorEvent(decoder.input[Len(decoder.input)])
            => decoder.rs.lastMessage = ErrorText(decoder.input[Len(decoder.input)]))
    /\ [](\A i \in 1..Len(decoder.input) :
            ErrorEvent(decoder.input[i])
                => /\ FlushPc(decoder.input[i]) = "error"
                   /\ FlushMessage("error", decoder.input[i])
                        = ErrorText(decoder.input[i]))

\* C29 witness: a text event and then an error event without error text, both
\* decoded: lastMessage is the JSON of the error event.
ErrorWithoutTextIsStringified ==
    /\ decoder.pc = "done"
    /\ decoder.input = << <<"{text:hi}">>, <<SP, "{error}">> >>
    /\ decoder.rs.lastMessage = <<"{error}">>

\* A line that is not JSON and is blank or holds 'node:internal'.
Silent(line) ==
    ~JSONParse(line).ok /\ (Trim(line) = <<>> \/ Includes(line, NodeInternal))

\* The run state of a handler given the chunk without its silent lines.
WithoutSilent ==
    Finish(RunLines(DecoderIdle.rs,
                    SelectSeq(decoder.input, LAMBDA l : ~Silent(l))))

\* C30: a line that is not JSON and is empty after trimming, or holds
\* 'node:internal', emits nothing: the handler makes no log call for it, the
\* finished sessionId, messageCount, toolUseCount and lastMessage are those of
\* the chunk without these lines, and the 'close' handler, finding such a line
\* in the buffer, logs nothing and keeps the run state.
SilentLineEmitsNothing ==
    /\ decoder.pc \notin {"idle", "done"} => ~Silent(Head(decoder.lines))
    /\ decoder.pc = "done" => decoder.rs = WithoutSilent
    /\ \A i \in 1..Len(decoder.input) :
          Silent(decoder.input[i])
              => /\ FlushPc(decoder.input[i]) = "done"
                 /\ FlushFold(decoder.rs, decoder.input[i]) = decoder.rs

\* C30 witness: a text event and then a raw line that holds 'node:internal',
\* both decoded: the only log call is that of the text, which is lastMessage.
DenylistedLineSkipped ==
    /\ decoder.pc = "done"
    /\ decoder.input = << <<"{text:hi}">>, <<"junk">> \o NodeInternal >>
    /\ decoder.logs = << [stream |-> "claude", message |-> <<"hi">>] >>
    /\ decoder.rs.lastMessage = <<"hi">>

\* An object whose type the dispatch of lines 124-167 has no branch for.
Unrecognized(line) ==
    /\ JSONParse(line).ok
    /\ JSONParse(line).type \notin {"message", "tool_use", "tool_result", "text", "error"}

\* The run state of a handler given the chunk without these objects.
WithoutUnrecognized ==
    Finish(RunLines(DecoderIdle.rs,
                    SelectSeq(decoder.input, LAMBDA l : ~Unrecognized(l))))

\* The session id of the first object of the chunk that carries one.
FirstSessionOfChunk ==
    LET with == {i \in 1..Len(decoder.input) :
                    JSONParse(decoder.input[i]).ok /\
                    JSONParse(decoder.input[i]).session_id # ""}
    IN  IF with = {} THEN NoSession
        ELSE JSONParse(decoder.input[CHOOSE i \in with : \A j \in with : i <= j]).session_id

\* C31: a line that is JSON but has an unrecognized or no type does not fail the
\* run: the only log call made for it is that of its session id, the handler
\* goes on to the lines after it, and the finished counters and lastMessage are
\* those of the chunk without such lines, while sessionId is the first session
\* id of the whole chunk, one carried by such a line included.
UnrecognizedTypePassesThrough ==
    /\ (decoder.pc \notin {"idle", "done"} /\ Unrecognized(Head(decoder.lines)))
         => decoder.pc = "session"
    /\ decoder.pc = "done"
         => /\ decoder.rs.messageCount = WithoutUnrecognized.messageCount
            /\ decoder.rs.toolUseCount = WithoutUnrecognized.toolUseCount
            /\ decoder.rs.lastMessage = WithoutUnrecognized.lastMessage
            /\ decoder.rs.sessionId = FirstSessionOfChunk

\* C31 witness: an object of unknown type carrying session s3 and then a message
\* carrying session s2, both decoded: one message counted, sessionId is s3.
UnknownTypeThenMessage ==
    /\ decoder.pc = "done"
    /\ decoder.input = << <<"{other,s3}">>, <<"{message,s2}">> >>
    /\ decoder.rs.sessionId = "s3"
    /\ decoder.rs.messageCount = 1 /\ decoder.rs.toolUseCount = 0

\* The arguments the program of the first command is given.
ChildArguments(parsed) == Tail(parsed[1])

\* C32: the resume token is passed through verbatim as an added argument: sh
\* runs the same two commands with and without it; with a token the arguments
\* of the child hold '--resume' followed by the token, unchanged and as one
\* argument, and are otherwise those of a run without a token; without a token
\* no argument is '--resume'.
ResumeTokenIsOneArgument ==
    command # <<>>
        => LET args == ChildArguments(command)
               plain == ChildArguments(ShellParse(ShellCommand(NoResume)))
           IN  /\ Len(command) = Len(ShellParse(ShellCommand(NoResume)))
               /\ IF resume = NoResume
                  THEN /\ args = plain
                       /\ \A i \in 1..Len(args) : args[i] # <<"--resume">>
                  ELSE \E i \in 1..(Len(args) - 1) :
                          /\ args[i] = <<"--resume">>
                          /\ args[i + 1] = resume
                          /\ SubSeq(args, 1, i - 1) \o SubSeq(args, i + 2, Len(args))
                               = plain

\* C33: the three execution paths are one logical operation: for the same
\* whole stdout text and the same exit status, the spawn path and the
\* async-iteration path, however the text is cut into chunks, return the
\* result (success, sessionId, limitReached, messageCount, toolUseCount) that
\* the buffered path returns for the text split once.
PathsReturnSameResult ==
    framer.closed
        => \A st \in ExitStatuses :
              ResultOf(PathRunState, st[1])
                = ResultOf(Finish(RunLines(DecoderIdle.rs, SplitFilter(framer.text))),
                           st[1])

\* C34: in every returned result limitReached is true exactly when the promise
\* was resolved with an exit code other than 0 and the lastMessage classified
\* held a rate-limit marker; so a result with limitReached true is never a
\* success, and the result of a spawn error never has limitReached true.
LimitReachedIffRateLimitedFailure ==
    Returned
        => /\ result.limitReached
                <=> (/\ settled = "resolved"
                     /\ commandResult.code # "0"
                     /\ HitRateLimit(classifiedLast))
           /\ result.limitReached => ~result.success
           /\ settled = "rejected" => ~result.limitReached

\* C34 witness: a child killed by a signal after a rate-limit message, returned
\* with limitReached true and success false.
KilledAfterRateLimitReturned ==
    /\ Returned /\ commandResult.signal = "SIGTERM"
    /\ HitRateLimit(classifiedLast)
    /\ result.limitReached /\ ~result.success

\* C35: each event kind changes only its own part of the run state: from every
\* run state a handler reaches, the next line, whatever it is, folded to its
\* end, leaves lastMessage as it was when it is a 'message', 'tool_use' or
\* 'tool_result' event, leaves both counters as they were when it is a 'text'
\* or 'error' event or a raw line, leaves toolUseCount when it is a 'message'
\* and messageCount when it is a 'tool_use', and never lowers a counter.
EventKindKeepsItsFrame ==
    \A l \in DecodeLines :
        LET d == JSONParse(l)
            before == decoder.rs
            after == TerminatedFold(decoder.rs, l)
        IN  /\ (d.ok /\ d.type \in {"message", "tool_use", "tool_result"})
                  => after.lastMessage = before.lastMessage
            /\ (~d.ok \/ d.type \in {"text", "error"})
                  => /\ after.messageCount = before.messageCount
                     /\ after.toolUseCount = before.toolUseCount
            /\ (d.ok /\ d.type = "message")
                  => after.toolUseCount = before.toolUseCount
            /\ (d.ok /\ d.type = "tool_use")
                  => after.messageCount = before.messageCount
            /\ after.messageCount >= before.messageCount
            /\ after.toolUseCount >= before.toolUseCount

\* C35 witness: a text event and then a tool use, both decoded: lastMessage is
\* still the text, one tool use and no message are counted.
ToolUseAfterTextKeepsLastMessage ==
    /\ decoder.pc = "done"
    /\ decoder.input = << <<"{text:hi}">>, <<"{tool_use}">> >>
    /\ decoder.rs.lastMessage = <<"hi">>
    /\ decoder.rs.toolUseCount = 1 /\ decoder.rs.messageCount = 0

\* C36: once the child has ended and 'close' has been delivered, and as long as
\* the log calls and the snapshot awaited after it complete, the function
\* returns a result; it waits for nothing else, not for the 'data' handlers
\* still suspended on their log calls.
CloseLeadsToReturn == child.closed ~> Returned

\* C36 witness: a result returned after 'close' while a stdout handler and a
\* stderr handler are still suspended on their log calls.
ReturnedWithHandlersSuspended ==
    Returned /\ child.closed /\ handlers # <<>> /\ stderrPending > 0

\* C37: the YouTrack operations never throw: no request is made with a
\* configuration that fails validation, every failure of validation or of the
\* request is returned as the operation's failure value (false, [], null,
\* false, false) and a request that succeeded as true, the issue list or the
\* issue.
YouTrackOperationsNeverThrow ==
    /\ youtrack.pc # "thrown"
    /\ ValidateYouTrackConfig(youtrack.config) # "ok" => youtrack.requests = 0
    /\ youtrack.pc = "returned"
         => youtrack.value = IF youtrack.failed THEN FailureValue(youtrack.op)
                             ELSE SuccessValue(youtrack.op)

====
